---- MODULE Spec2Model ----
(***************************************************************************)
(* Model of the blob put/get batch commands (data_blob.go) and of the      *)
(* hash utilities they use (util.go).                                      *)
(*                                                                         *)
(* A string is a sequence of runes.  An ASCII rune is written as a         *)
(* one-character string; the only non-ASCII rune of the model is written   *)
(* "U+00E9" and takes two bytes in UTF-8, so that Go's len() (bytes) and   *)
(* the number of characters of a string differ.                            *)
(***************************************************************************)
EXTENDS Integers, Sequences, FiniteSets, TLC

\* ------------------------------------------------------------------ bounds
MaxArgs == 3
MaxProbeLen == 41
MaxSlice == 3
MaxCommands == 2
MaxConcArgs == 1

\* ------------------------------------------------------- program constants
HashLen == 40
ShortLen == 7

\* ------------------------------------------------------------------ strings
Rep(r, n) == [k \in 1..n |-> r]

Range(s) == {s[k] : k \in 1..Len(s)}

Digits == {"0", "1", "2", "3", "4", "5", "6", "7", "8", "9"}
LowerHex == {"a", "b", "c", "d", "e", "f"}
UpperHex == {"A", "B", "C", "D", "E", "F"}

\* unicode.ASCII_Hex_Digit: 0-9, A-F, a-f
ASCII_Hex_Digit == Digits \cup LowerHex \cup UpperHex

\* bytes of the UTF-8 encoding of one rune
RuneLen(r) == IF r = "U+00E9" THEN 2 ELSE 1

RECURSIVE ByteLen(_)
\* Go's len(string): the number of bytes
ByteLen(s) == IF s = <<>> THEN 0 ELSE RuneLen(Head(s)) + ByteLen(Tail(s))

RECURSIVE isHashRunes(_, _)
\* the loop of isHash: return false at the first rune that is no hex digit
isHashRunes(hash, k) ==
    IF k > Len(hash) THEN TRUE
    ELSE IF hash[k] \notin ASCII_Hex_Digit THEN FALSE
    ELSE isHashRunes(hash, k + 1)

\* a plausible slip: only the lowercase digest alphabet is accepted
isHashLowerOnly(hash) ==
    IF ByteLen(hash) # HashLen THEN FALSE
    ELSE \A k \in 1..Len(hash) : hash[k] \in Digits \cup LowerHex
\* a plausible slip: the length test is dropped
isHashNoLen(hash) == isHashRunes(hash, 1)
\* a plausible slip: the length test lets longer strings through
isHashAtLeast(hash) ==
    IF ByteLen(hash) < HashLen THEN FALSE ELSE isHashRunes(hash, 1)
isHash(hash) ==
    IF ByteLen(hash) # HashLen THEN FALSE ELSE isHashRunes(hash, 1)

shortHash(hash) == SubSeq(hash, 1, ShortLen)

BlobPrefix == <<"/", "b", "l", "o", "b", "/">>

\* a plausible slip: the key is built from the 7-character display form
blobKeyShort(hash) == BlobPrefix \o shortHash(hash)
blobKey(hash) == BlobPrefix \o hash

RECURSIVE setLoop(_, _, _)
\* the loop of set: append an element the first time it is seen
setLoop(slice, k, dedup) ==
    IF k > Len(slice) THEN dedup
    ELSE IF slice[k] \in Range(dedup) THEN setLoop(slice, k + 1, dedup)
    ELSE setLoop(slice, k + 1, Append(dedup, slice[k]))

\* a plausible slip: the element is appended whether seen or not
setAppendsAll(slice) == slice
\* first occurrences, in input order
set(slice) == setLoop(slice, 1, <<>>)

\* fmt.Errorf("invalid <hash>: %v", hash): the message and the hash it names
InvalidHashErr(hash) == <<"invalid <hash>", hash>>

RECURSIVE validLoop(_, _, _, _)
\* a plausible slip: the error of the first invalid hash is kept
validLoopFirstErr(hs, k, v, e) ==
    IF k > Len(hs) THEN <<v, e>>
    ELSE IF isHash(hs[k]) THEN validLoop(hs, k + 1, Append(v, hs[k]), e)
    ELSE validLoop(hs, k + 1, v, IF e = <<>> THEN InvalidHashErr(hs[k]) ELSE e)
\* the loop of validHashes: append a valid hash, overwrite err at an
\* invalid one; the result is the pair <<valid, err>>
validLoop(hs, k, v, e) ==
    IF k > Len(hs) THEN <<v, e>>
    ELSE IF isHash(hs[k]) THEN validLoop(hs, k + 1, Append(v, hs[k]), e)
    ELSE validLoop(hs, k + 1, v, InvalidHashErr(hs[k]))

\* hashes = set(hashes), then the loop; err is <<>> for nil
validHashes(hs) == validLoop(set(hs), 1, <<>>, <<>>)

\* ------------------------------------------------------ the modelled world
\* hashes of the two contents the tracked files can hold
HA == [k \in 1..HashLen |-> IF k % 2 = 1 THEN "a" ELSE "3"]
HB == [k \in 1..HashLen |-> IF k % 2 = 1 THEN "b" ELSE "7"]
\* HA spelled with uppercase letters: passes isHash, differs from HA
HAUpper == [k \in 1..HashLen |-> IF k % 2 = 1 THEN "A" ELSE "3"]
\* the 7-character display form of HA: fails isHash
HAShort == shortHash(HA)

ArgStrings == {HA, HB, HAUpper, HAShort}

Contents == {"ca", "cb"}
\* computeHash of a content (readerHash: lowercase hex of the SHA-1 sum)
readerHash(c) ==
    CASE c = "ca" -> HA
      [] c = "cb" -> HB
      [] OTHER -> [k \in 1..HashLen |-> "0"]
ContentOf(h) == IF h = HA THEN "ca" ELSE "cb"

\* content of a file that was created/truncated but not fully written
Partial == "partial"
\* marker of a path that holds no file
NoFile == "ENOENT"
\* marker of a path the manifest does not track
Untracked == <<"-">>

Paths == {"fileA", "fileB", "fileC"}
\* the stable order in which the manifest enumerates tracked paths
PathOrder == <<"fileA", "fileB", "fileC">>

\* the datasets of the model: nothing tracked; two files of one hash and a
\* third of another, the shared hash first or last; three files of one hash
Manifests ==
    { [p \in Paths |-> Untracked],
      [p \in Paths |-> IF p = "fileC" THEN HB ELSE HA],
      [p \in Paths |-> IF p = "fileA" THEN HB ELSE HA],
      [p \in Paths |-> HA] }

\* Manifest.PathsForHash: the tracked paths whose hash is the argument
PathsForHash(mf, hash) == SelectSeq(PathOrder, LAMBDA p : mf[p] = hash)

\* Manifest.AllHashes: the distinct hashes of the tracked files
AllHashes(mf) == {mf[p] : p \in Paths} \ {Untracked}

\* every ordering of a finite set
Orderings(S) ==
    {s \in [1..Cardinality(S) -> S] : \A x \in S : \E k \in DOMAIN s : s[k] = x}

\* BlobStore: a finite map from keys to contents
StoreHas(st, key) == key \in DOMAIN st
StorePut(st, key, c) ==
    [k \in DOMAIN st \cup {key} |-> IF k = key THEN c ELSE st[k]]

StoreKeys == {blobKey(HA), blobKey(HB)}
\* the blobstores of the model: empty; holding one blob; holding both.  The
\* store does not check that a blob matches its key.
InitialStores ==
    {st \in UNION {[K -> Contents] : K \in SUBSET StoreKeys} :
        /\ blobKey(HB) \in DOMAIN st => blobKey(HA) \in DOMAIN st
        /\ DOMAIN st = {blobKey(HA)} => st[blobKey(HA)] = "cb"
        /\ DOMAIN st = StoreKeys => st[blobKey(HA)] # st[blobKey(HB)]}

SeqsUpTo(S, n) == UNION {[1..m -> S] : m \in 0..n}

\* --------------------------------------------------------------- the state
VARIABLES
    mode,       \* "put" (blobPutCmd) or "get" (blobGetCmd)
    allFlag,    \* the --all flag
    args,       \* the explicit <hash> arguments
    manifest,   \* tracked path -> hash
    files,      \* path -> content of the local file, or NoFile
    store,      \* the blobstore: key -> content
    files0,     \* files when the command started
    store0,     \* store when the command started
    hashes,     \* the list blobCmdRunFunc iterates over
    pc,         \* position of the command
    idx,        \* position of the range loop in hashes
    done,       \* the done map of blobCmdRunFunc
    paths,      \* paths resolved for the hash being transferred
    cidx,       \* position of the copy loop of blobGetCmd in paths
    err,        \* the error the command returned
    log,        \* every manifest, store and file operation, in order
    probe,      \* isHash check: the string under test
    verdict,    \* isHash check: the value isHash returned
    slice,      \* the argument of set and of validHashes
    dedup,      \* the slice set returned
    valid,      \* the valid slice validHashes returned
    verr,       \* the err validHashes returned: <<>> for nil
    upc,        \* set/validHashes check: not called, or which returned
    trail,      \* the commands that ran before this one, oldest first
    other       \* the locals of the command that runs beside this one

batchVars == <<mode, allFlag, args, manifest, files, store, files0, store0,
               hashes, pc, idx, done, paths, cidx, err, log>>
hashVars == <<probe, verdict>>
utilVars == <<slice, dedup, valid, verr, upc>>
\* what a single command never touches
aside == <<probe, verdict, slice, dedup, valid, verr, upc, trail, other>>
vars == <<mode, allFlag, args, manifest, files, store, files0, store0,
          hashes, pc, idx, done, paths, cidx, err, log, probe, verdict,
          slice, dedup, valid, verr, upc, trail, other>>

\* one entry of the operation log
Op(op, i, hash, key, src, dst, content, ok) ==
    [op |-> op, i |-> i, hash |-> hash, key |-> key, src |-> src,
     dst |-> dst, content |-> content, ok |-> ok]

NoErr == "nil"

\* set and validHashes are not under test
IdleUtil ==
    /\ slice = <<>>
    /\ dedup = <<>>
    /\ valid = <<>>
    /\ verr = <<>>
    /\ upc = "idle"

\* the files a dataset can hold given its manifest: a tracked file either
\* holds the content of its hash or is missing; all tracked files are
\* missing, or at most one is
InitialFiles(mf) ==
    {f \in [Paths -> Contents \cup {NoFile}] :
        /\ \A p \in Paths :
              IF mf[p] = Untracked THEN f[p] = NoFile
              ELSE f[p] \in {NoFile, ContentOf(mf[p])}
        /\ \/ \A p \in Paths : f[p] = NoFile
           \/ Cardinality({p \in Paths : mf[p] # Untracked /\ f[p] = NoFile}) <= 1}

Init ==
    /\ mode \in {"put", "get"}
    /\ allFlag \in BOOLEAN
    /\ args \in SeqsUpTo(ArgStrings, MaxArgs)
    /\ manifest \in Manifests
    /\ files \in InitialFiles(manifest)
    /\ store \in InitialStores
    /\ files0 = files
    /\ store0 = store
    /\ hashes = <<>>
    /\ pc = "args"
    /\ idx = 0
    /\ done = {}
    /\ paths = <<>>
    /\ cidx = 0
    /\ err = NoErr
    /\ log = <<>>
    /\ probe = <<>>
    /\ verdict = "idle"
    /\ IdleUtil
    /\ trail = <<>>
    /\ other = <<>>

env == <<mode, allFlag, args, manifest, files0, store0>>

Logged(e) == log' = Append(log, e)
LoggedAll(es) == log' = log \o es

\* --------------------------------------------------------- blobCmdHashes
\* a plausible slip: the manifest's hashes are put before the arguments
PrependAll(a, extra) == extra \o a
\* args = append(args, mf.AllHashes()...)
AppendAll(a, extra) == a \o extra

blobCmdHashes ==
    /\ pc = "args"
    /\ IF allFlag
       THEN \E extra \in Orderings(AllHashes(manifest)) :
                hashes' = AppendAll(args, extra)
       ELSE hashes' = args
    /\ pc' = "run"
    /\ UNCHANGED <<env, files, store, idx, done, paths, cidx, err, log>>
    /\ UNCHANGED aside

\* -------------------------------------------------------- blobCmdRunFunc
\* a plausible slip: the error is recorded but the loop goes on
ReturnErrContinue(e) == err' = e /\ pc' = "loop" /\ idx' = idx + 1
\* return err
ReturnErr(e) == err' = e /\ pc' = "done" /\ idx' = idx

\* a plausible slip: the done map is never consulted
FoundNever(d, hash) == FALSE
\* _, found := done[hash]
Found(d, hash) == hash \in d

\* a plausible slip: the data index is obtained before the length check
NoHashesAfterIndex ==
    /\ pc = "run"
    /\ Len(hashes) < 1
    /\ Logged(Op("index", 0, <<>>, <<>>, "", "", "", TRUE))
    /\ err' = "at least one <hash> argument required."
    /\ pc' = "done"
    /\ UNCHANGED <<env, files, store, hashes, idx, done, paths, cidx>>
    /\ UNCHANGED aside
\* len(hashes) < 1
NoHashes ==
    /\ pc = "run"
    /\ Len(hashes) < 1
    /\ err' = "at least one <hash> argument required."
    /\ pc' = "done"
    /\ UNCHANGED <<env, files, store, hashes, idx, done, paths, cidx, log>>
    /\ UNCHANGED aside

\* dataIndex, err := mainDataIndex()
mainDataIndex ==
    /\ pc = "run"
    /\ ~(Len(hashes) < 1)
    /\ \/ /\ Logged(Op("index", 0, <<>>, <<>>, "", "", "", TRUE))
          /\ pc' = "loop"
          /\ idx' = 1
          /\ err' = err
       \/ /\ Logged(Op("index", 0, <<>>, <<>>, "", "", "", FALSE))
          /\ pc' = "done"
          /\ idx' = idx
          /\ err' = "index"
    /\ done' = {}
    /\ UNCHANGED <<env, files, store, hashes, paths, cidx>>
    /\ UNCHANGED aside

InLoop == pc = "loop" /\ idx <= Len(hashes)

\* the range loop is exhausted: return nil
LoopExit ==
    /\ pc = "loop"
    /\ idx > Len(hashes)
    /\ pc' = "done"
    /\ UNCHANGED <<env, files, store, hashes, idx, done, paths, cidx, err, log>>
    /\ UNCHANGED aside

\* if _, found := done[hash]; found { continue }
SkipDone ==
    /\ InLoop
    /\ Found(done, hashes[idx])
    /\ idx' = idx + 1
    /\ UNCHANGED <<env, files, store, hashes, pc, done, paths, cidx, err, log>>
    /\ UNCHANGED aside

\* if !isHash(hash) { return fmt.Errorf("invalid <hash>: %v", hash) }
RejectInvalid ==
    /\ InLoop
    /\ ~Found(done, hashes[idx])
    /\ ~isHash(hashes[idx])
    /\ ReturnErr("invalid <hash>")
    /\ UNCHANGED <<env, files, store, hashes, done, paths, cidx, log>>
    /\ UNCHANGED aside

\* a plausible slip: a hash without paths is skipped silently
blobPathsSkip ==
    /\ InLoop
    /\ ~Found(done, hashes[idx])
    /\ isHash(hashes[idx])
    /\ PathsForHash(manifest, hashes[idx]) = <<>>
    /\ idx' = idx + 1
    /\ UNCHANGED <<env, files, store, hashes, pc, done, paths, cidx, err, log>>
    /\ UNCHANGED aside
\* paths, err := blobPaths(hash); if err != nil { return err }
blobPathsFail ==
    /\ InLoop
    /\ ~Found(done, hashes[idx])
    /\ isHash(hashes[idx])
    /\ PathsForHash(manifest, hashes[idx]) = <<>>
    /\ Logged(Op("lookup", idx, hashes[idx], <<>>, "", "", "", FALSE))
    /\ ReturnErr("hash not found")
    /\ UNCHANGED <<env, files, store, hashes, done, paths, cidx>>
    /\ UNCHANGED aside

\* paths resolved: err = f(dataIndex, hash, paths)
blobPaths ==
    /\ InLoop
    /\ ~Found(done, hashes[idx])
    /\ isHash(hashes[idx])
    /\ PathsForHash(manifest, hashes[idx]) # <<>>
    /\ paths' = PathsForHash(manifest, hashes[idx])
    /\ LoggedAll(<<Op("lookup", idx, hashes[idx], <<>>, "", "", "", TRUE),
               Op("call", idx, hashes[idx], <<>>, "", "", "", TRUE)>>)
    /\ pc' = mode
    /\ UNCHANGED <<env, files, store, hashes, idx, done, cidx, err>>
    /\ UNCHANGED aside

\* a plausible slip: the hash is not recorded in the done map
CompletedUnmarked ==
    /\ done' = done
    /\ idx' = idx + 1
    /\ pc' = "loop"
    /\ err' = err
\* f returned nil: done[hash] = true, next iteration
Completed ==
    /\ done' = done \cup {hashes[idx]}
    /\ idx' = idx + 1
    /\ pc' = "loop"
    /\ err' = err

\* ------------------------------------------------- blobPutCmd and putBlob
\* a plausible slip: the last path of the hash is uploaded
PutSourceLast(ps) == ps[Len(ps)]
\* d.putBlob(hash, paths[0])
PutSource(ps) == ps[1]

\* a plausible slip: the closure sees the loop variable of the finished
\* range, so the key is built from the last hash of the batch
PutKeyOfLast == blobKey(hashes[Len(hashes)])
\* a plausible slip: the key is built from the first hash of the batch
PutKeyOfFirst == blobKey(hashes[1])
\* blobKey(hash) of the hash being put
PutKey == blobKey(hashes[idx])
OpenOp(ok) ==
    Op("open", idx, hashes[idx], <<>>, PutSource(paths), "", "", ok)
PutOp(ok) ==
    Op("Put", idx, hashes[idx], PutKey, PutSource(paths), "",
       files[PutSource(paths)], ok)
PutCloseOp(ok) ==
    Op("close", idx, hashes[idx], <<>>, PutSource(paths), "", "", ok)

\* f, err := os.Open(path) fails: the file is missing
putBlobOpenFail ==
    /\ pc = "put"
    /\ files[PutSource(paths)] = NoFile
    /\ Logged(OpenOp(FALSE))
    /\ ReturnErr("open")
    /\ UNCHANGED <<env, files, store, hashes, done, paths, cidx>>
    /\ UNCHANGED aside

\* i.BlobStore.Put(blobKey(hash), bf) fails: nothing is stored
putBlobStoreFail ==
    /\ pc = "put"
    /\ files[PutSource(paths)] # NoFile
    /\ LoggedAll(<<OpenOp(TRUE), PutOp(FALSE)>>)
    /\ ReturnErr("Put")
    /\ UNCHANGED <<env, files, store, hashes, done, paths, cidx>>
    /\ UNCHANGED aside

\* the Put succeeded and f.Close() fails
putBlobCloseFail ==
    /\ pc = "put"
    /\ files[PutSource(paths)] # NoFile
    /\ store' = StorePut(store, PutKey, files[PutSource(paths)])
    /\ LoggedAll(<<OpenOp(TRUE), PutOp(TRUE), PutCloseOp(FALSE)>>)
    /\ ReturnErr("close")
    /\ UNCHANGED <<env, files, hashes, done, paths, cidx>>
    /\ UNCHANGED aside

\* putBlob returns nil
putBlob ==
    /\ pc = "put"
    /\ files[PutSource(paths)] # NoFile
    /\ store' = StorePut(store, PutKey, files[PutSource(paths)])
    /\ LoggedAll(<<OpenOp(TRUE), PutOp(TRUE)>>)
    /\ Completed
    /\ UNCHANGED <<env, files, hashes, paths, cidx>>
    /\ UNCHANGED aside

\* ------------------------------------------------- blobGetCmd and getBlob
\* a plausible slip: the key is built from the 7-character display form
GetKeyShort == blobKey(shortHash(hashes[idx]))
\* blobKey(hash) of the hash being fetched
GetKey == blobKey(hashes[idx])
GetOp(ok) == Op("Get", idx, hashes[idx], GetKey, "", "", "", ok)
CreateOp(ok) == Op("create", idx, hashes[idx], <<>>, "", paths[1], "", ok)
WriteOp(c, ok) == Op("write", idx, hashes[idx], <<>>, "", paths[1], c, ok)
GetCloseOp(ok) == Op("close", idx, hashes[idx], <<>>, "", paths[1], "", ok)

\* a plausible slip: the destination is created before the store is asked
getBlobCreateFirst ==
    /\ pc = "get"
    /\ files' = [files EXCEPT ![paths[1]] = Partial]
    /\ LoggedAll(<<CreateOp(TRUE), GetOp(FALSE)>>)
    /\ ReturnErr("Get")
    /\ UNCHANGED <<env, store, hashes, done, paths, cidx>>
    /\ UNCHANGED aside
\* r, err := i.BlobStore.Get(blobKey(hash)) fails: no such key, or the
\* transport failed
getBlobStoreFail ==
    /\ pc = "get"
    /\ Logged(GetOp(FALSE))
    /\ ReturnErr("Get")
    /\ UNCHANGED <<env, files, store, hashes, done, paths, cidx>>
    /\ UNCHANGED aside

\* w, err := os.Create(path) fails
getBlobCreateFail ==
    /\ pc = "get"
    /\ StoreHas(store, GetKey)
    /\ LoggedAll(<<GetOp(TRUE), CreateOp(FALSE)>>)
    /\ ReturnErr("create")
    /\ UNCHANGED <<env, files, store, hashes, done, paths, cidx>>
    /\ UNCHANGED aside

\* io.Copy(w, br) fails: the file was truncated and is partly written
getBlobCopyFail ==
    /\ pc = "get"
    /\ StoreHas(store, GetKey)
    /\ files' = [files EXCEPT ![paths[1]] = Partial]
    /\ LoggedAll(<<GetOp(TRUE), CreateOp(TRUE), WriteOp(Partial, FALSE)>>)
    /\ ReturnErr("write")
    /\ UNCHANGED <<env, store, hashes, done, paths, cidx>>
    /\ UNCHANGED aside

\* the content was written and w.Close() or r.Close() fails
getBlobCloseFail ==
    /\ pc = "get"
    /\ StoreHas(store, GetKey)
    /\ files' = [files EXCEPT ![paths[1]] = store[GetKey]]
    /\ LoggedAll(<<GetOp(TRUE), CreateOp(TRUE), WriteOp(store[GetKey], TRUE),
                   GetCloseOp(FALSE)>>)
    /\ ReturnErr("close")
    /\ UNCHANGED <<env, store, hashes, done, paths, cidx>>
    /\ UNCHANGED aside

\* getBlob returns nil; the copy loop starts at paths[1:]
getBlob ==
    /\ pc = "get"
    /\ StoreHas(store, GetKey)
    /\ files' = [files EXCEPT ![paths[1]] = store[GetKey]]
    /\ LoggedAll(<<GetOp(TRUE), CreateOp(TRUE), WriteOp(store[GetKey], TRUE)>>)
    /\ pc' = "copy"
    /\ cidx' = 2
    /\ UNCHANGED <<env, store, hashes, idx, done, paths, err>>
    /\ UNCHANGED aside

\* a plausible slip: source and destination are swapped
copyFileSwapped(fs, src, dst) == [fs EXCEPT ![src] = fs[dst]]
\* cp src dst
copyFile(fs, src, dst) == [fs EXCEPT ![dst] = fs[src]]

CopyOp(ok) == Op("copy", idx, hashes[idx], <<>>, paths[1], paths[cidx], "", ok)

\* err := copyFile(paths[0], path) succeeds
copyToOthers ==
    /\ pc = "copy"
    /\ cidx <= Len(paths)
    /\ files' = copyFile(files, paths[1], paths[cidx])
    /\ Logged(CopyOp(TRUE))
    /\ cidx' = cidx + 1
    /\ UNCHANGED <<env, store, hashes, pc, idx, done, paths, err>>
    /\ UNCHANGED aside

\* cp fails: the destination is untouched or partly written
copyToOthersFail ==
    /\ pc = "copy"
    /\ cidx <= Len(paths)
    /\ \/ files' = files
       \/ files' = [files EXCEPT ![paths[cidx]] = Partial]
    /\ Logged(CopyOp(FALSE))
    /\ ReturnErr("copy")
    /\ UNCHANGED <<env, store, hashes, done, paths, cidx>>
    /\ UNCHANGED aside

\* the copy loop is exhausted: f returns nil
blobGetReturn ==
    /\ pc = "copy"
    /\ cidx > Len(paths)
    /\ Completed
    /\ UNCHANGED <<env, files, store, hashes, paths, cidx, log>>
    /\ UNCHANGED aside

\* what the error the command returned can name.  Every error is returned
\* as the failing call made it, never wrapped: fmt.Errorf("invalid <hash>:
\* %v", hash) carries the hash; os.Open, os.Create, io.Copy and Close are
\* given the path alone; BlobStore.Put and Get are given the key alone;
\* cmd.Run() of cp reports the exit status alone.
ErrNames ==
    CASE err = "invalid <hash>" -> [hash |-> {hashes[idx]}, path |-> {}]
      [] err \in {"Put", "Get"} -> [hash |-> {hashes[idx]}, path |-> {}]
      [] err = "open" -> [hash |-> {}, path |-> {PutSource(paths)}]
      [] err \in {"create", "write"} -> [hash |-> {}, path |-> {paths[1]}]
      [] err = "close" ->
            [hash |-> {},
             path |-> {IF mode = "put" THEN PutSource(paths) ELSE paths[1]}]
      [] OTHER -> [hash |-> {}, path |-> {}]

Next ==
    \/ blobCmdHashes
    \/ NoHashes
    \/ mainDataIndex
    \/ LoopExit
    \/ SkipDone
    \/ RejectInvalid
    \/ blobPathsFail
    \/ blobPaths
    \/ putBlobOpenFail
    \/ putBlobStoreFail
    \/ putBlobCloseFail
    \/ putBlob
    \/ getBlobStoreFail
    \/ getBlobCreateFail
    \/ getBlobCopyFail
    \/ getBlobCloseFail
    \/ getBlob
    \/ copyToOthers
    \/ copyToOthersFail
    \/ blobGetReturn

Spec == Init /\ [][Next]_vars

\* ------------------------------------------------ isHash on its own inputs
ProbeRunes == {"a", "F", "0", "9", "g", "G", "z", " ", "U+00E9"}

\* a hex string of HashLen characters whose k-th rune is replaced by r
Spoiled(k, r) == [j \in 1..HashLen |-> IF j = k THEN r ELSE HA[j]]

ProbeStrings ==
    {Rep(r, n) : r \in ProbeRunes, n \in 0..MaxProbeLen}
    \cup {Spoiled(k, r) : k \in 1..HashLen, r \in {"g", "U+00E9", "-"}}
    \cup {<<"a", "b", "c">>, HA, HB, HAUpper, HAShort, HA \o <<"0">>}

InitHash ==
    /\ mode = "put"
    /\ allFlag = FALSE
    /\ args = <<>>
    /\ manifest = [p \in Paths |-> Untracked]
    /\ files = [p \in Paths |-> NoFile]
    /\ store = <<>>
    /\ files0 = files
    /\ store0 = store
    /\ hashes = <<>>
    /\ pc = "idle"
    /\ idx = 0
    /\ done = {}
    /\ paths = <<>>
    /\ cidx = 0
    /\ err = NoErr
    /\ log = <<>>
    /\ probe \in ProbeStrings
    /\ verdict = "pending"
    /\ IdleUtil
    /\ trail = <<>>
    /\ other = <<>>

\* isHash(probe) returns true
isHashAccepts ==
    /\ verdict = "pending"
    /\ isHash(probe)
    /\ verdict' = "true"
    /\ UNCHANGED <<probe, batchVars, utilVars, trail, other>>

\* isHash(probe) returns false
isHashRejects ==
    /\ verdict = "pending"
    /\ ~isHash(probe)
    /\ verdict' = "false"
    /\ UNCHANGED <<probe, batchVars, utilVars, trail, other>>

NextHash == isHashAccepts \/ isHashRejects

SpecHash == InitHash /\ [][NextHash]_vars

\* ---------------------------------- commands run one after the other
\* one dataset and one blobstore, empty at first, see a sequence of put and
\* get commands; each command starts when the one before has returned

SessionStrings == {HA, HB, HAShort}
\* a command of a session is given at most one explicit argument; --all
\* makes the longer batches
SessionArgs == {<<>>} \cup {<<h>> : h \in SessionStrings}
EmptyStore == [k \in {} |-> ""]
\* the datasets of a session: both hashes tracked, or one; every tracked
\* file present, or one of the first two missing
SessionManifests == {mf \in Manifests : mf["fileA"] = HA}
SessionFiles(mf) == {f \in InitialFiles(mf) : f["fileC"] # NoFile}

\* the ok Put operations of the log as key/content pairs
PutsOf(l) ==
    {<<l[j].key, l[j].content>> : j \in {n \in 1..Len(l) : l[n].op = "Put" /\ l[n].ok}}

\* what is kept of a command that returned
Summary ==
    [mode |-> mode, allFlag |-> allFlag, args |-> args, err |-> err,
     done |-> done, puts |-> PutsOf(log), files |-> files, store |-> store]

InitSession ==
    /\ mode \in {"put", "get"}
    /\ allFlag \in BOOLEAN
    /\ args \in SessionArgs
    /\ manifest \in SessionManifests
    /\ files \in SessionFiles(manifest)
    /\ store = EmptyStore
    /\ files0 = files
    /\ store0 = store
    /\ hashes = <<>>
    /\ pc = "args"
    /\ idx = 0
    /\ done = {}
    /\ paths = <<>>
    /\ cidx = 0
    /\ err = NoErr
    /\ log = <<>>
    /\ probe = <<>>
    /\ verdict = "idle"
    /\ IdleUtil
    /\ trail = <<>>
    /\ other = <<>>

\* the command has returned and the next one is started on the same
\* dataset and store
NewCommand ==
    /\ pc = "done"
    /\ Len(trail) + 1 < MaxCommands
    /\ trail' = Append(trail, Summary)
    /\ mode' \in {"put", "get"}
    /\ allFlag' \in BOOLEAN
    /\ args' \in SessionArgs
    /\ files0' = files
    /\ store0' = store
    /\ hashes' = <<>>
    /\ pc' = "args"
    /\ idx' = 0
    /\ done' = {}
    /\ paths' = <<>>
    /\ cidx' = 0
    /\ err' = NoErr
    /\ log' = <<>>
    /\ UNCHANGED <<manifest, files, store, probe, verdict, utilVars, other>>

NextSession == Next \/ NewCommand

SpecSession == InitSession /\ [][NextSession]_vars

\* ------------------------------------------ two commands side by side
\* two invocations run as two processes on the same dataset and the same
\* blobstore.  The variables of a command hold the locals of the process
\* that is running; other holds the locals of the process that waits.

ConcStrings == {HA, HB}
\* both hashes tracked, every tracked file present
ConcManifest == [p \in Paths |-> IF p = "fileC" THEN HB ELSE HA]
ConcFiles == [p \in Paths |-> ContentOf(ConcManifest[p])]
\* the store is empty, or holds the blob of HA, or both blobs
ConcStores ==
    {st \in UNION {[K -> Contents] : K \in SUBSET StoreKeys} :
        /\ blobKey(HB) \in DOMAIN st => blobKey(HA) \in DOMAIN st
        /\ \A key \in DOMAIN st : st[key] = ContentOf(SubSeq(key, 7, Len(key)))}

\* the locals of one invocation
Locals ==
    [mode |-> mode, allFlag |-> allFlag, args |-> args, hashes |-> hashes,
     pc |-> pc, idx |-> idx, done |-> done, paths |-> paths, cidx |-> cidx,
     err |-> err, log |-> log]

\* the locals of an invocation that has not started
Fresh(m, all, a) ==
    [mode |-> m, allFlag |-> all, args |-> a, hashes |-> <<>>,
     pc |-> "args", idx |-> 0, done |-> {}, paths |-> <<>>, cidx |-> 0,
     err |-> NoErr, log |-> <<>>]

\* the non-empty batches an invocation can be given
ConcBatches ==
    {b \in [all : BOOLEAN, args : SeqsUpTo(ConcStrings, MaxConcArgs)] :
        b.all \/ b.args # <<>>}

InitConc ==
    /\ mode \in {"put", "get"}
    /\ \E b \in ConcBatches : allFlag = b.all /\ args = b.args
    /\ manifest = ConcManifest
    /\ files = ConcFiles
    /\ store \in ConcStores
    /\ files0 = files
    /\ store0 = store
    /\ hashes = <<>>
    /\ pc = "args"
    /\ idx = 0
    /\ done = {}
    /\ paths = <<>>
    /\ cidx = 0
    /\ err = NoErr
    /\ log = <<>>
    /\ probe = <<>>
    /\ verdict = "idle"
    /\ IdleUtil
    /\ trail = <<>>
    /\ other \in {Fresh(m, b.all, b.args) : m \in {"put", "get"}, b \in ConcBatches}

\* the scheduler runs the other process
Switch ==
    /\ other.pc # "done"
    /\ other' = Locals
    /\ mode' = other.mode
    /\ allFlag' = other.allFlag
    /\ args' = other.args
    /\ hashes' = other.hashes
    /\ pc' = other.pc
    /\ idx' = other.idx
    /\ done' = other.done
    /\ paths' = other.paths
    /\ cidx' = other.cidx
    /\ err' = other.err
    /\ log' = other.log
    /\ UNCHANGED <<manifest, files, store, files0, store0, probe, verdict,
                   utilVars, trail>>

\* BlobStore.Get finds no blob under the key
getBlobNoKey ==
    /\ pc = "get"
    /\ ~StoreHas(store, GetKey)
    /\ getBlobStoreFail

\* r, err := i.BlobStore.Get(...); w, err := os.Create(path): the
\* destination exists and is empty until io.Copy has run
getBlobCreate ==
    /\ pc = "get"
    /\ StoreHas(store, GetKey)
    /\ files' = [files EXCEPT ![paths[1]] = Partial]
    /\ LoggedAll(<<Op("Get", idx, hashes[idx], GetKey, "", "", store[GetKey], TRUE),
                   CreateOp(TRUE)>>)
    /\ pc' = "write"
    /\ UNCHANGED <<env, store, hashes, idx, done, paths, cidx, err>>
    /\ UNCHANGED aside

\* io.Copy(w, br) streams the blob to the file: what the store held when
\* Get returned the reader or, if the key was Put to since, possibly what it
\* holds now; getBlob returns nil and the copy loop starts at paths[1:]
getBlobWrite ==
    /\ pc = "write"
    /\ \E c \in {log[Len(log) - 1].content, store[GetKey]} :
          /\ files' = [files EXCEPT ![paths[1]] = c]
          /\ Logged(WriteOp(c, TRUE))
    /\ pc' = "copy"
    /\ cidx' = 2
    /\ UNCHANGED <<env, store, hashes, idx, done, paths, err>>
    /\ UNCHANGED aside

\* one invocation run alone from files fs and store st, every operation
\* completing: blobCmdRunFunc over hs with the done map d, from entry k;
\* calls lists the hashes f was called for
RECURSIVE RunFrom(_, _, _, _, _, _, _)
RunFrom(m, hs, k, d, fs, st, calls) ==
    LET Result(e, c) == [files |-> fs, store |-> st, err |-> e, calls |-> c] IN
    IF k > Len(hs) THEN Result(NoErr, calls)
    ELSE IF Found(d, hs[k]) THEN RunFrom(m, hs, k + 1, d, fs, st, calls)
    ELSE IF ~isHash(hs[k]) THEN Result("invalid <hash>", calls)
    ELSE
        LET ps == PathsForHash(manifest, hs[k])
            key == blobKey(hs[k])
            called == Append(calls, hs[k])
        IN
        IF ps = <<>> THEN Result("hash not found", calls)
        ELSE IF m = "put" THEN
            IF fs[PutSource(ps)] = NoFile THEN Result("open", called)
            ELSE RunFrom(m, hs, k + 1, d \cup {hs[k]}, fs,
                         StorePut(st, key, fs[PutSource(ps)]), called)
        ELSE
            IF ~StoreHas(st, key) THEN Result("Get", called)
            ELSE RunFrom(m, hs, k + 1, d \cup {hs[k]},
                         [p \in Paths |->
                             IF p \in Range(ps) THEN st[key] ELSE fs[p]],
                         st, called)

RunAlone(m, hs, fs, st) ==
    IF Len(hs) < 1
    THEN [files |-> fs, store |-> st, calls |-> <<>>,
          err |-> "at least one <hash> argument required."]
    ELSE RunFrom(m, hs, 1, {}, fs, st, <<>>)

\* invocation x run to its end, then invocation y
OneAfterTheOther(x, y) ==
    LET first == RunAlone(x.mode, x.hashes, files0, store0)
        second == RunAlone(y.mode, y.hashes, first.files, first.store)
    IN [files |-> second.files, store |-> second.store,
        first |-> first, second |-> second]

NextConc ==
    \/ blobCmdHashes
    \/ mainDataIndex
    \/ LoopExit
    \/ SkipDone
    \/ blobPaths
    \/ putBlob
    \/ getBlobNoKey
    \/ getBlobCreate
    \/ getBlobWrite
    \/ copyToOthers
    \/ blobGetReturn
    \/ Switch

SpecConc == InitConc /\ [][NextConc]_vars

\* ------------------------------------ set and validHashes on their inputs
\* the strings of the slices: the argument strings and a second invalid one
UtilStrings == ArgStrings \cup {Rep("g", HashLen)}

\* no command runs
IdleBatch ==
    /\ mode = "put"
    /\ allFlag = FALSE
    /\ args = <<>>
    /\ manifest = [p \in Paths |-> Untracked]
    /\ files = [p \in Paths |-> NoFile]
    /\ store = <<>>
    /\ files0 = files
    /\ store0 = store
    /\ hashes = <<>>
    /\ pc = "idle"
    /\ idx = 0
    /\ done = {}
    /\ paths = <<>>
    /\ cidx = 0
    /\ err = NoErr
    /\ log = <<>>
    /\ trail = <<>>
    /\ other = <<>>

InitUtil ==
    /\ IdleBatch
    /\ probe = <<>>
    /\ verdict = "idle"
    /\ slice \in SeqsUpTo(UtilStrings, MaxSlice)
    /\ dedup = <<>>
    /\ valid = <<>>
    /\ verr = <<>>
    /\ upc = "call"

\* dedup := set(slice)
setReturns ==
    /\ upc = "call"
    /\ dedup' = set(slice)
    /\ upc' = "set"
    /\ UNCHANGED <<slice, valid, verr, batchVars, hashVars, trail, other>>

\* valid, err := validHashes(slice)
validHashesReturns ==
    /\ upc = "call"
    /\ valid' = validHashes(slice)[1]
    /\ verr' = validHashes(slice)[2]
    /\ upc' = "validHashes"
    /\ UNCHANGED <<slice, dedup, batchVars, hashVars, trail, other>>

NextUtil == setReturns \/ validHashesReturns

SpecUtil == InitUtil /\ [][NextUtil]_vars

\* ===================================================================
\* Properties
\* ===================================================================

\* what the documentation calls a hash: HashLen characters, all hex digits
HexChars ==
    {"0", "1", "2", "3", "4", "5", "6", "7", "8", "9",
     "a", "b", "c", "d", "e", "f", "A", "B", "C", "D", "E", "F"}
FortyHexOf(s) == Len(s) = HashLen /\ \A k \in 1..Len(s) : s[k] \in HexChars
\* FortyHexOf, tabulated on the strings a batch can be given
FortyHexTable == [s \in ArgStrings |-> FortyHexOf(s)]
FortyHex(s) == IF s \in ArgStrings THEN FortyHexTable[s] ELSE FortyHexOf(s)

LogIdx == 1..Len(log)
StoreOps == {"Put", "Get"}
\* everything the transfer function does or causes
TransferOps == {"call", "open", "Put", "Get", "create", "write", "copy", "close"}
\* the errors a transfer function can return
TransferErrs == {"open", "Put", "close", "Get", "create", "write", "copy"}

Invalid(hs) == {k \in 1..Len(hs) : ~FortyHex(hs[k])}
Least(S) == CHOOSE k \in S : \A j \in S : k <= j
Tracked(h) == \E p \in Paths : manifest[p] = h
Returned == pc = "done"

\* C1 (as stated): a batch that contains a string failing isHash performs
\* no transfer at all, not even for the valid hashes that precede it.
ValidationAllOrNothing ==
    Invalid(hashes) # {} =>
        \A j \in LogIdx : log[j].op \notin TransferOps

\* C1 (amended): validation is per item.  A batch that contains a string
\* failing isHash never returns success; no manifest lookup, store or file
\* operation is made for the first invalid string or for any entry after
\* it; when the loop reaches the first invalid string the batch returns the
\* validation error.
ValidationPerItem ==
    Invalid(hashes) # {} =>
        LET first == Least(Invalid(hashes)) IN
        /\ idx <= first
        /\ \A j \in LogIdx :
              log[j].op \in TransferOps \cup {"lookup"} => log[j].i < first
        /\ Returned => err # NoErr
        /\ Returned /\ idx = first => err = "invalid <hash>"

\* C1 witness: [H1, H2_invalid, H3] returned the validation error after H1
\* had been stored
ValidationAfterTransfer ==
    /\ Returned
    /\ err = "invalid <hash>"
    /\ Len(hashes) = 3
    /\ idx = 2
    /\ \E j \in LogIdx : log[j].op = "Put" /\ log[j].ok /\ log[j].i = 1

\* C2: in one batch the transfer function is invoked at most once for a
\* hash and at most one store operation is made for it, a Put in a put
\* batch and a Get in a get batch, however often the hash occurs in the
\* list and however many paths share it.
DedupAtMostOnce ==
    /\ \A j \in LogIdx :
          log[j].op \in StoreOps =>
              log[j].op = (IF mode = "put" THEN "Put" ELSE "Get")
    /\ \A j1, j2 \in {j \in LogIdx : log[j].op = "call"} :
          log[j1].hash = log[j2].hash => j1 = j2
    /\ \A j1, j2 \in {j \in LogIdx : log[j].op \in StoreOps} :
          log[j1].hash = log[j2].hash => j1 = j2

\* C2 witness: a batch returned nil in which a hash with several paths
\* occurred twice, once as an argument and once through --all
DedupTwiceRequested ==
    /\ Returned
    /\ err = NoErr
    /\ allFlag
    /\ \E k1, k2 \in 1..Len(hashes) :
          /\ k1 <= Len(args)
          /\ k2 > Len(args)
          /\ hashes[k1] = hashes[k2]
          /\ Len(PathsForHash(manifest, hashes[k1])) > 1
          /\ \E j \in LogIdx : log[j].op \in StoreOps /\ log[j].hash = hashes[k1]

\* C3: a valid hash that no tracked path resolves to is never transferred
\* and never skipped: the loop does not pass it, no store or file operation
\* is made for it, the batch does not return nil, and once the manifest was
\* asked for it the batch has returned the not-found error.
NotFoundAborts ==
    \A k \in 1..Len(hashes) :
        FortyHex(hashes[k]) /\ ~Tracked(hashes[k]) =>
            /\ idx <= k
            /\ Returned => err # NoErr
            /\ \A j \in LogIdx :
                  log[j].hash = hashes[k] =>
                      /\ log[j].op = "lookup"
                      /\ ~log[j].ok
                      /\ j = Len(log)
                      /\ Returned
                      /\ err = "hash not found"

\* C3 witness: a get batch returned the not-found error for its second
\* hash, without any store call for it
NotFoundInGet ==
    /\ Returned
    /\ mode = "get"
    /\ err = "hash not found"
    /\ idx = 2
    /\ log[Len(log)].op = "lookup"
    /\ \A j \in LogIdx : log[j].op \in StoreOps => log[j].hash # hashes[idx]

\* the effect of a completed transfer of h is in place
EffectInPlace(h) ==
    IF mode = "put"
    THEN /\ StoreHas(store, BlobPrefix \o h)
         /\ store[BlobPrefix \o h] = files0[PathsForHash(manifest, h)[1]]
    ELSE \A p \in Paths : manifest[p] = h => files[p] = store0[BlobPrefix \o h]

\* C4: when the transfer of a hash fails the batch has returned that error;
\* no operation was made for a later entry of the list; the failed
\* operation is the last one made and was attempted once; the hash is not
\* marked done; and what the transfers completed before it stored or wrote
\* is still in place.
AbortOnFirstError ==
    /\ \A h \in done : EffectInPlace(h)
    /\ err \in TransferErrs =>
          /\ Returned
          /\ hashes[idx] \notin done
          /\ \A j \in LogIdx : log[j].i <= idx
          /\ log[Len(log)].i = idx
          /\ ~log[Len(log)].ok
          /\ \A j \in LogIdx :
                \/ j = Len(log)
                \/ /\ log[j].ok
                   /\ ~ ( /\ log[j].op = log[Len(log)].op
                          /\ log[j].hash = log[Len(log)].hash
                          /\ log[j].dst = log[Len(log)].dst )

\* C4 witness: the transfer of the second hash failed after the first had
\* been completed and with a further valid hash still waiting in the list
AbortedMidBatch ==
    /\ err \in TransferErrs
    /\ done # {}
    /\ idx = 2
    /\ \E k \in (idx + 1)..Len(hashes) :
          hashes[k] \notin done /\ hashes[k] # hashes[idx] /\ FortyHex(hashes[k])

\* the store and file operations logged for hash h, in order
OpsFor(h) ==
    SelectSeq(log, LAMBDA e : e.hash = h /\ e.op \notin {"lookup", "call"})

\* C5: a successful get of H, resolved to paths p0..pn, makes one store Get
\* for "/blob/"+H written to p0 and then n copies p0 -> pi, i = 1..n, in
\* order; afterwards every path of H holds the fetched content, the files
\* tracked under hashes the batch has not reached are unchanged, and so is
\* the store.
GetReplication ==
    mode = "get" =>
        /\ store = store0
        /\ \A p \in Paths :
              (\A k \in 1..Len(hashes) : k <= idx => hashes[k] # manifest[p])
                  => files[p] = files0[p]
        /\ \A h \in done :
              LET ps == PathsForHash(manifest, h)
                  key == BlobPrefix \o h
                  ops == OpsFor(h)
              IN /\ Len(ops) = 3 + (Len(ps) - 1)
                 /\ ops[1].op = "Get" /\ ops[1].key = key
                 /\ ops[2].op = "create" /\ ops[2].dst = ps[1]
                 /\ ops[3].op = "write" /\ ops[3].dst = ps[1]
                 /\ ops[3].content = store0[key]
                 /\ \A n \in 2..Len(ps) :
                       /\ ops[n + 2].op = "copy"
                       /\ ops[n + 2].src = ps[1]
                       /\ ops[n + 2].dst = ps[n]
                 /\ \A n \in 1..Len(ps) : files[ps[n]] = store0[key]

\* C5 witness: manifest {fileA: H, fileB: H, fileC: H2}, get [H] returned
\* nil after one store Get and one copy; fileA and fileB hold the fetched
\* content, which differs from what fileA held, and fileC is as it was
GetReplicatedExample ==
    /\ Returned
    /\ err = NoErr
    /\ mode = "get"
    /\ hashes = <<HA>>
    /\ manifest = [p \in Paths |-> IF p = "fileC" THEN HB ELSE HA]
    /\ Cardinality({j \in LogIdx : log[j].op = "Get"}) = 1
    /\ Cardinality({j \in LogIdx : log[j].op = "copy"}) = 1
    /\ files0["fileA"] = "ca"
    /\ files0["fileB"] = NoFile
    /\ files["fileA"] = "cb"
    /\ files["fileB"] = "cb"
    /\ files["fileC"] = "cb"
    /\ files0["fileC"] = "cb"

\* C6: in a put batch every store Put has the key "/blob/"+H and the
\* content of the first path the manifest resolves for H; only that path
\* is opened; a completed hash has exactly one Put; no local file is
\* modified and nothing is fetched or copied.
PutUsesFirstPath ==
    mode = "put" =>
        /\ files = files0
        /\ \A j \in LogIdx :
              /\ log[j].op \notin {"Get", "create", "write", "copy"}
              /\ log[j].op \in {"open", "Put", "close"} =>
                    log[j].src = PathsForHash(manifest, log[j].hash)[1]
              /\ log[j].op = "Put" =>
                    /\ log[j].key = BlobPrefix \o log[j].hash
                    /\ log[j].content = files0[PathsForHash(manifest, log[j].hash)[1]]
                    /\ log[j].content # NoFile
        /\ \A h \in done :
              /\ Cardinality({j \in LogIdx : log[j].op = "Put" /\ log[j].hash = h}) = 1
              /\ \A j \in LogIdx : log[j].op = "Put" /\ log[j].hash = h => log[j].ok
              /\ StoreHas(store, BlobPrefix \o h)
              /\ store[BlobPrefix \o h] = files0[PathsForHash(manifest, h)[1]]

\* C6 witness: a put batch returned nil for a hash with three paths whose
\* last path holds no file, and the store now holds the first path's
\* content in place of what it held
PutFromFirstOfThree ==
    /\ Returned
    /\ err = NoErr
    /\ mode = "put"
    /\ HA \in done
    /\ manifest = [p \in Paths |-> HA]
    /\ files0["fileA"] = "ca"
    /\ files0["fileC"] = NoFile
    /\ StoreHas(store0, blobKey(HA))
    /\ store0[blobKey(HA)] = "cb"
    /\ store[blobKey(HA)] = "ca"

\* C7: the list starts with the explicit arguments, followed by hashes of
\* the manifest when --all is given; operations are made in list order,
\* all operations of one hash before any of the next; a store operation is
\* made for the first occurrence of its hash and only after every earlier
\* entry of the list has been completed; at most one hash is in transfer.
SequentialOrder ==
    pc # "args" =>
        /\ Len(hashes) >= Len(args)
        /\ SubSeq(hashes, 1, Len(args)) = args
        /\ \A k \in (Len(args) + 1)..Len(hashes) : allFlag /\ Tracked(hashes[k])
        /\ \A j \in 1..(Len(log) - 1) : log[j].i <= log[j + 1].i
        /\ \A j \in LogIdx :
              log[j].op \in StoreOps =>
                  /\ hashes[log[j].i] = log[j].hash
                  /\ \A k \in 1..(log[j].i - 1) :
                        hashes[k] # log[j].hash /\ hashes[k] \in done
        /\ Cardinality({log[j].hash : j \in {n \in LogIdx : log[n].op = "call"}}
                       \ done) <= 1

\* C7 witness: get --all with explicit arguments returned nil after two
\* store Gets with a copy between them, the list holding a hash twice
SequentialTwoGets ==
    /\ Returned
    /\ err = NoErr
    /\ mode = "get"
    /\ allFlag
    /\ args # <<>>
    /\ Len(hashes) > Cardinality(done)
    /\ \E j1, j2, j3 \in LogIdx :
          /\ j1 < j2 /\ j2 < j3
          /\ log[j1].op = "Get" /\ log[j2].op = "copy" /\ log[j3].op = "Get"

\* C8: every key passed to the store's Put or Get is "/blob/" followed by
\* the full requested string, which has 40 hex characters; the manifest is
\* asked only for such strings; a string failing isHash, the 7-character
\* form included, is never a store key or a manifest lookup key.
StoreKeyInvariant ==
    /\ \A j \in LogIdx :
          /\ log[j].op \in StoreOps =>
                /\ log[j].key = <<"/", "b", "l", "o", "b", "/">> \o log[j].hash
                /\ Len(log[j].key) = 6 + HashLen
          /\ log[j].op \in StoreOps \cup {"lookup"} =>
                /\ FortyHex(log[j].hash)
                /\ log[j].hash = hashes[log[j].i]
    /\ \A key \in DOMAIN store :
          \/ key \in DOMAIN store0
          \/ \E k \in 1..Len(hashes) :
                /\ FortyHex(hashes[k])
                /\ key = <<"/", "b", "l", "o", "b", "/">> \o hashes[k]

\* C8 witness: a put batch that also names the 7-character form of a hash
\* stored a new key for the full hash
StoredUnderFullKey ==
    /\ Returned
    /\ mode = "put"
    /\ HAShort \in Range(hashes)
    /\ DOMAIN store # DOMAIN store0
    /\ \E j \in LogIdx : log[j].op = "Put" /\ log[j].ok /\ log[j].hash = HA

\* C9: isHash(s) is true iff s has exactly 40 characters and every one of
\* them is a hexadecimal digit in [0-9a-fA-F]; 40 times 'a' is accepted,
\* 40 times 'g', "abc", the empty string and a 41-character hex string are
\* rejected.
IsHashIffFortyHex ==
    verdict \in {"true", "false"} =>
        /\ (verdict = "true") <=> FortyHex(probe)
        /\ probe = Rep("a", 40) => verdict = "true"
        /\ probe \in {Rep("g", 40), <<"a", "b", "c">>, <<>>, Rep("a", 41)}
              => verdict = "false"

\* C9 witness: isHash was applied to 40 times 'F' and accepted it
IsHashAccepted40 == verdict = "true" /\ probe = Rep("F", 40)
Lower(r) ==
    CASE r = "A" -> "a" [] r = "B" -> "b" [] r = "C" -> "c"
      [] r = "D" -> "d" [] r = "E" -> "e" [] r = "F" -> "f" [] OTHER -> r
ToLower(s) == [k \in 1..Len(s) |-> Lower(s[k])]
HasUpperOf(s) == \E k \in 1..Len(s) : s[k] \in {"A", "B", "C", "D", "E", "F"}
\* HasUpperOf, tabulated on the strings a batch can be given
HasUpperTable == [s \in ArgStrings |-> HasUpperOf(s)]
HasUpper(s) == IF s \in ArgStrings THEN HasUpperTable[s] ELSE HasUpperOf(s)

\* C10 (as stated): no manifest lookup and no store operation is made for a
\* requested string that contains an uppercase hex letter, and two strings
\* that differ only in letter case never give two store operations under
\* two different keys.
LowercaseOnly ==
    /\ \A j \in LogIdx :
          log[j].op \in StoreOps \cup {"lookup"} => ~HasUpper(log[j].hash)
    /\ \A j1, j2 \in {j \in LogIdx : log[j].op \in StoreOps} :
          ToLower(log[j1].hash) = ToLower(log[j2].hash)
              => log[j1].key = log[j2].key

\* C10 (amended): 40 hex characters of either letter case are accepted and
\* the case is not normalised.  Lookups and store operations are made only
\* for strings of 40 hex characters; the validation error is returned only
\* for a string that is not 40 hex characters; a requested string with an
\* uppercase letter is looked up under its exact spelling, the manifest
\* (whose hashes are lowercase digests) does not resolve it and the batch
\* returns the not-found error without a store operation for it; so two
\* strings that differ only in letter case never give two store operations
\* under two different keys.
EitherCaseAccepted ==
    /\ Returned /\ err = "invalid <hash>" => ~FortyHex(hashes[idx])
    /\ Returned /\ err = "hash not found" /\ HasUpper(hashes[idx]) =>
          /\ log[Len(log)].op = "lookup"
          /\ log[Len(log)].hash = hashes[idx]
    /\ \A k \in 1..Len(hashes) :
          FortyHex(hashes[k]) /\ HasUpper(hashes[k]) =>
              /\ idx <= k
              /\ Returned /\ idx = k => err = "hash not found"
    /\ \A j \in LogIdx :
          /\ log[j].op \in StoreOps \cup {"lookup"} => FortyHex(log[j].hash)
          /\ log[j].op \in StoreOps => ~HasUpper(log[j].hash)
          /\ log[j].op = "lookup" /\ HasUpper(log[j].hash) => ~log[j].ok
    /\ \A j1, j2 \in {j \in LogIdx : log[j].op \in StoreOps} :
          ToLower(log[j1].hash) = ToLower(log[j2].hash)
              => log[j1].key = log[j2].key

\* C10 witness: after the lowercase hash was transferred, its uppercase
\* spelling passed validation, was looked up and was not found
UppercaseLookedUp ==
    /\ Returned
    /\ err = "hash not found"
    /\ hashes[idx] = HAUpper
    /\ HA \in done
    /\ log[Len(log)].op = "lookup"
    /\ log[Len(log)].hash = HAUpper
\* position of the first occurrence of x in s
FirstIdx(s, x) == Least({k \in 1..Len(s) : s[k] = x})
NoDuplicates(s) == \A i, j \in 1..Len(s) : s[i] = s[j] => i = j

\* C11: set returns the first occurrence of each distinct element of its
\* input, in input order: the result has no duplicates, has exactly the
\* elements of the input, keeps the first-seen order, and set of the result
\* is the result; the input slice is not changed.
SetFirstOccurrences ==
    /\ [](upc = "set" =>
            /\ NoDuplicates(dedup)
            /\ Range(dedup) = Range(slice)
            /\ \A i, j \in 1..Len(dedup) :
                  i < j => FirstIdx(slice, dedup[i]) < FirstIdx(slice, dedup[j])
            /\ set(dedup) = dedup)
    /\ [][setReturns => slice' = slice]_vars

\* C11 witness: set of [HB, HA, HB] returned [HB, HA]
SetDroppedLater ==
    /\ upc = "set"
    /\ slice = <<HB, HA, HB>>
    /\ dedup = <<HB, HA>>

Greatest(S) == CHOOSE k \in S : \A j \in S : j <= k
\* the positions of slice holding a string that is not 40 hex digits
BadAt(s) == {k \in 1..Len(s) : ~FortyHexOf(s[k])}
\* the invalid string whose first occurrence comes last in s
LastInvalid(s) ==
    LET firsts == {FirstIdx(s, s[k]) : k \in BadAt(s)} IN s[Greatest(firsts)]

\* C20: validHashes filters per item.  For every input sequence it returns
\* exactly the distinct elements that are 40 hex digits, in the order of
\* their first occurrence, together with an error that is non-nil iff some
\* element is not a valid hash; the error names the last invalid element,
\* and the valid hashes are returned alongside it.
ValidHashesFilters ==
    upc = "validHashes" =>
        /\ NoDuplicates(valid)
        /\ Range(valid) = {slice[k] : k \in (1..Len(slice)) \ BadAt(slice)}
        /\ \A i, j \in 1..Len(valid) :
              i < j => FirstIdx(slice, valid[i]) < FirstIdx(slice, valid[j])
        /\ (verr # <<>>) <=> (BadAt(slice) # {})
        /\ BadAt(slice) # {} => verr = <<"invalid <hash>", LastInvalid(slice)>>

\* C20 witness: two different invalid strings around a valid hash; the
\* hash is returned and the error names the second invalid string
ValidHashesLastError ==
    /\ upc = "validHashes"
    /\ slice = <<HAShort, HA, Rep("g", HashLen)>>
    /\ valid = <<HA>>
    /\ verr = <<"invalid <hash>", Rep("g", HashLen)>>

\* C17: an empty batch is an error.  Once blobCmdHashes has produced an
\* empty list (no arguments and no --all, or --all over a manifest without
\* hashes) the command returns "at least one <hash> argument required."
\* and has not obtained the data index, looked anything up in the manifest,
\* or touched the store or a file.
EmptyBatchIsError ==
    pc # "args" /\ Len(hashes) < 1 =>
        /\ pc \in {"run", "done"}
        /\ log = <<>>
        /\ files = files0
        /\ store = store0
        /\ done = {}
        /\ Returned => err = "at least one <hash> argument required."

\* C17 witness: --all over a manifest that tracks nothing returned the
\* error
EmptyAllReturned ==
    /\ Returned
    /\ allFlag
    /\ args = <<>>
    /\ hashes = <<>>
    /\ err = "at least one <hash> argument required."

\* what changes a local file
FileWrites == {"create", "write", "copy"}

\* C18: getBlob leaves the local filesystem unchanged when the store Get
\* fails.  Every create, write and copy of a batch comes after a successful
\* Get for the same entry; a failed Get is the last operation of the batch,
\* and the batch that returns its error has left every path of that hash,
\* paths[0] and the duplicates paths[1:], as it was when the command began.
GetErrorLeavesFiles ==
    /\ \A j \in LogIdx :
          log[j].op \in FileWrites =>
              \E k \in 1..(j - 1) :
                  log[k].op = "Get" /\ log[k].ok /\ log[k].i = log[j].i
    /\ \A j \in LogIdx :
          log[j].op = "Get" /\ ~log[j].ok =>
              /\ j = Len(log)
              /\ Returned /\ err = "Get"
              /\ \A p \in Paths :
                    manifest[p] = log[j].hash => files[p] = files0[p]

\* C18 witness: a get of a hash with several paths, one of them holding a
\* file, returned the store's error and no path of the hash changed
GetFailedFilesKept ==
    /\ Returned
    /\ err = "Get"
    /\ Len(paths) >= 2
    /\ files0[paths[1]] # NoFile
    /\ ~StoreHas(store, GetKey)
    /\ \A k \in 1..Len(paths) : files[paths[k]] = files0[paths[k]]

\* the stage of the command: each step of Next lowers it or, within the
\* loop, lowers Remaining
Stage ==
    CASE pc = "args" -> 3
      [] pc = "run" -> 2
      [] pc = "done" -> 0
      [] OTHER -> 1
\* an upper bound of the steps one loop iteration takes
IterSteps == Cardinality(Paths) + 3
\* the work left in the range loop
Remaining ==
    (Len(hashes) + 1 - idx) * IterSteps +
        CASE pc = "loop" -> IterSteps - 1
          [] pc \in {"put", "get"} -> IterSteps - 2
          [] pc = "copy" -> IterSteps - 1 - cidx
          [] OTHER -> 0
\* the command is at a point of the code from which a step is defined:
\* in the loop on an entry or just past the last, in a transfer on an entry
\* with its resolved paths, in the copy loop on a duplicate or just past
\* the last
Positioned ==
    /\ pc \in {"args", "run", "loop", "put", "get", "copy", "done"}
    /\ pc = "loop" => idx \in 1..(Len(hashes) + 1)
    /\ pc \in {"put", "get", "copy"} =>
          /\ idx \in 1..Len(hashes)
          /\ paths # <<>>
          /\ paths = PathsForHash(manifest, hashes[idx])
          /\ pc \in {mode, "copy"}
    /\ pc = "copy" => mode = "get" /\ cidx \in 2..(Len(paths) + 1)
\* no manifest, store or file operation has failed so far
NothingFailed == \A j \in LogIdx : log[j].ok
\* the entries of the log that start the transfer of h
CallsOf(h) == {j \in LogIdx : log[j].op = "call" /\ log[j].hash = h}
\* the successful store operations for h
StoredOf(h) ==
    {j \in LogIdx : log[j].op \in StoreOps /\ log[j].ok /\ log[j].hash = h}

\* C16: successful completion.  The command always terminates: until it
\* returns it is at a point from which a step is defined, and every step
\* strictly lowers a bounded measure.  A non-empty batch of valid, tracked hashes in which no
\* operation failed returns nil with every distinct hash of the batch (the
\* arguments and, under --all, every hash of the manifest) in the done map
\* and transferred exactly once.  A hash is in the done map only after its
\* transfer succeeded.
SuccessfulCompletion ==
    /\ []Positioned
    /\ [][/\ Stage' <= Stage
          /\ Stage' = Stage => Stage = 1 /\ Remaining' < Remaining
          /\ Remaining' >= 0]_vars
    /\ [](\A h \in done : CallsOf(h) # {} /\ StoredOf(h) # {}
                          /\ \A j \in LogIdx : log[j].hash = h => log[j].ok)
    /\ [](/\ Returned
          /\ Len(hashes) >= 1
          /\ \A k \in 1..Len(hashes) : FortyHex(hashes[k]) /\ Tracked(hashes[k])
          /\ NothingFailed
          => /\ err = NoErr
             /\ done = Range(hashes)
             /\ Range(args) \subseteq done
             /\ allFlag => AllHashes(manifest) \subseteq done
             /\ \A h \in done :
                   Cardinality(CallsOf(h)) = 1 /\ Cardinality(StoredOf(h)) = 1)

\* C16 witness: --all with an argument that the manifest also lists
\* returned nil; both hashes are done and the list had three entries
CompletedAllWithRepeat ==
    /\ Returned
    /\ err = NoErr
    /\ allFlag
    /\ Len(args) = 1
    /\ Len(hashes) = 3
    /\ Cardinality(done) = 2
    /\ NothingFailed

\* the path the failed operation of the returned error was working on
OffendingPath ==
    IF err = "copy" THEN paths[cidx]
    ELSE IF mode = "put" /\ err \in {"open", "Put", "close"} THEN PutSource(paths)
    ELSE paths[1]

\* C15 (as stated): the error of a failed transfer identifies the offending
\* hash and path, and the validation error identifies the malformed hash.
ErrorCarriesContext ==
    /\ Returned /\ err = "invalid <hash>" => hashes[idx] \in ErrNames.hash
    /\ Returned /\ err \in TransferErrs =>
          /\ hashes[idx] \in ErrNames.hash
          /\ OffendingPath \in ErrNames.path

\* the hash a store key names
HashOfKey(key) == SubSeq(key, Len(BlobPrefix) + 1, Len(key))
\* this command and every command before it is a put
OnlyPuts == mode = "put" /\ \A k \in 1..Len(trail) : trail[k].mode = "put"

\* C19: content addressing.  After any sequence of put commands on a store
\* that was empty at first, with every tracked file holding the content
\* its manifest hash names, every key of the store is "/blob/" followed by
\* a hash and the content under it hashes to that hash.
ContentAddressed ==
    OnlyPuts =>
        \A key \in DOMAIN store :
            /\ SubSeq(key, 1, Len(BlobPrefix)) = BlobPrefix
            /\ readerHash(store[key]) = HashOfKey(key)

\* C19 witness: a second put command returned and the store holds a blob
\* under each of the two hashes, one stored by each command
TwoPutsTwoBlobs ==
    /\ OnlyPuts
    /\ Returned
    /\ Len(trail) = 1
    /\ trail[1].puts # {}
    /\ PutsOf(log) # {}
    /\ DOMAIN store0 # DOMAIN store
    /\ DOMAIN store = StoreKeys

\* the command before this one was the same successful put
SamePutAgain ==
    /\ Len(trail) >= 1
    /\ mode = "put"
    /\ LET prev == trail[Len(trail)] IN
          /\ prev.mode = "put"
          /\ prev.args = args
          /\ prev.allFlag = allFlag
          /\ prev.err = NoErr
          /\ prev.files = files0

\* C13: put is idempotent.  When a put command that returned nil is run
\* again with the same arguments on the unchanged files, the store keeps
\* the keys and contents the first run left, at every step of the second
\* run and when it returns.
PutIdempotent ==
    SamePutAgain =>
        /\ DOMAIN store = DOMAIN trail[Len(trail)].store
        /\ \A key \in DOMAIN store : store[key] = trail[Len(trail)].store[key]

\* C13 witness: the second run of a put --all returned nil after storing
\* both blobs again
PutTwiceSameStore ==
    /\ SamePutAgain
    /\ Returned
    /\ err = NoErr
    /\ allFlag
    /\ Cardinality(PutsOf(log)) = 2
    /\ PutsOf(log) = trail[1].puts
    /\ store = trail[1].store

\* the earlier commands that stored something under key
PutAt(key) == {k \in 1..Len(trail) : \E pr \in trail[k].puts : pr[1] = key}
\* what the latest successful Put to key uploaded: the content the local
\* file held then
Uploaded(key) ==
    LET pr == CHOOSE q \in trail[Greatest(PutAt(key))].puts : q[1] = key IN pr[2]

\* C12: round trip through the store.  In a get command that follows a
\* successful Put of content C under "/blob/" + H, with no Put to that key
\* since, the store holds C under the key getBlob asks for, so the Get does
\* not fail for want of the key, and every file getBlob has written for H
\* holds exactly C.
RoundTrip ==
    mode = "get" =>
        \A key \in {k \in StoreKeys : PutAt(k) # {}} :
            /\ pc = "get" /\ blobKey(hashes[idx]) = key =>
                  StoreHas(store, GetKey) /\ store[GetKey] = Uploaded(key)
            /\ \A j \in LogIdx :
                  /\ log[j].op = "write" /\ log[j].ok
                  /\ blobKey(log[j].hash) = key
                  => /\ log[j].content = Uploaded(key)
                     /\ files[log[j].dst] = Uploaded(key)

\* C12 witness: HA was put from fileA holding "ca"; the get that followed
\* wrote "ca" to fileA and restored the missing fileB from it
PutThenGetRestored ==
    /\ mode = "get"
    /\ Returned
    /\ err = NoErr
    /\ Len(trail) = 1
    /\ <<blobKey(HA), "ca">> \in trail[1].puts
    /\ HA \in done
    /\ files0["fileB"] = NoFile
    /\ files["fileA"] = "ca"
    /\ files["fileB"] = "ca"

BothReturned == pc = "done" /\ other.pc = "done"

\* the hashes a log shows f to have been called for, in order
Called(l) ==
    LET at == SelectSeq([j \in 1..Len(l) |-> j], LAMBDA j : l[j].op = "call") IN
    [n \in 1..Len(at) |-> l[at[n]].hash]
\* obtaining the data index did not fail in either invocation
IndexObtained ==
    /\ \A j \in LogIdx : log[j].op = "index" => log[j].ok
    /\ \A j \in 1..Len(other.log) : other.log[j].op = "index" => other.log[j].ok
\* invocation x and then invocation y, one after the other, would have
\* made the calls, returned the results and left the files and the store
\* that the two interleaved invocations did
SameAs(x, y) ==
    LET seq == OneAfterTheOther(x, y) IN
    /\ files = seq.files
    /\ store = seq.store
    /\ x.err = seq.first.err
    /\ y.err = seq.second.err
    /\ Called(x.log) = seq.first.calls
    /\ Called(y.log) = seq.second.calls

\* C14 (as stated): whatever the interleaving of two invocations, they make
\* the same calls, return the same results and leave the same files and
\* store as one of the two orders of running them one after the other.
Serialisable ==
    BothReturned /\ IndexObtained =>
        SameAs(Locals, other) \/ SameAs(other, Locals)
====
